---- MODULE Spec2Model ----
(***************************************************************************)
(* Offline form-submission queue of the Vu Anh website: FormHandler       *)
(* (pending-submission queue, replay on 'online') and RateLimiter.         *)
(* One page session; the event loop runs one handler step at a time, and   *)
(* every await (fetch, setTimeout) is a point where other handlers run.    *)
(***************************************************************************)
EXTENDS Integers, Sequences, FiniteSets, TLC

(* ---- program constants ---- *)
MAX_ATTEMPTS == 3
WINDOW_MS == 300000
NAME_MIN == 2
NAME_MAX == 100
EMAIL_MAX == 254
PHONE_MAX == 20
MESSAGE_MIN == 10
MESSAGE_MAX == 5000

(* ---- bounds of the model ---- *)
MaxSubs == 1
MaxOverlaps == 1
MaxTicks == 4
MaxInbox == 1
MaxLoads == 2

(* ---- values ---- *)
(* the item under 'vuanh_pending_submissions': absent, a string that
   JSON.parse rejects, or the JSON text of a queue (JSON.stringify and
   JSON.parse are inverse on arrays of records of strings and numbers) *)
NoItem == [state |-> "absent", queue |-> <<>>]
Corrupt == [state |-> "corrupt", queue |-> <<>>]
Json(q) == [state |-> "json", queue |-> q]

RECURSIVE SeqMin(_)
SeqMin(s) == IF Len(s) = 1 THEN s[1]
             ELSE LET m == SeqMin(Tail(s)) IN IF s[1] <= m THEN s[1] ELSE m

CeilDiv(a, b) == IF a >= 0 THEN (a + b - 1) \div b ELSE -((-a) \div b)

Ids(q) == {q[i].id : i \in DOMAIN q}

IsPrefix(p, q) == Len(p) <= Len(q) /\ \A i \in DOMAIN p : p[i] = q[i]

(* ---- sanitized form data, by the properties validation looks at ---- *)
FormData(n, el, eok, pl, pok, ml, sp) ==
    [nameLen |-> n, emailLen |-> el, emailOk |-> eok,
     phoneLen |-> pl, phoneOk |-> pok, msgLen |-> ml, spam |-> sp]

GoodForm == FormData(5, 12, TRUE, 0, TRUE, 10, FALSE)

FormInputs ==
    { GoodForm,
      FormData(5, 12, TRUE, 0, TRUE, 9, FALSE),
      FormData(1, 0, FALSE, 0, TRUE, 20, FALSE) }

(* the lengths and formats around each limit of the validation *)
NameLens == {0, 1, NAME_MIN, NAME_MAX, NAME_MAX + 1}

EmailLens == {0, 12, EMAIL_MAX, EMAIL_MAX + 1}

PhoneLens == {0, 10, PHONE_MAX, PHONE_MAX + 1}

MessageLens == {0, MESSAGE_MIN - 1, MESSAGE_MIN, MESSAGE_MAX, MESSAGE_MAX + 1}

(* the form data validation is called with: an address that matches the
   email pattern has five characters at least, an absent phone has no
   characters to reject, a spam pattern needs six characters *)
FormCases ==
    { d \in { FormData(n, el, eok, pl, pok, ml, sp) :
                n \in NameLens, el \in EmailLens, eok \in BOOLEAN,
                pl \in PhoneLens, pok \in BOOLEAN, ml \in MessageLens,
                sp \in BOOLEAN } :
        /\ d.emailOk => d.emailLen >= 5
        /\ d.phoneLen = 0 => d.phoneOk
        /\ d.spam => (d.msgLen >= 6 \/ d.nameLen >= 6) }

validateFormData_ExclusiveMin(d) ==
    LET nameBad == d.nameLen < NAME_MIN
        emailBad == d.emailLen = 0
        invalidFields == (IF nameBad THEN <<"name">> ELSE <<>>)
                         \o (IF emailBad THEN <<"email">> ELSE <<>>)
    IN  IF d.nameLen > NAME_MAX
          THEN [valid |-> FALSE, fields |-> <<"name">>]
        ELSE IF d.emailLen > 0 /\ ~d.emailOk
          THEN [valid |-> FALSE, fields |-> <<"email">>]
        ELSE IF d.emailLen > EMAIL_MAX
          THEN [valid |-> FALSE, fields |-> <<"email">>]
        ELSE IF d.phoneLen > 0 /\ ~d.phoneOk
          THEN [valid |-> FALSE, fields |-> <<"phone">>]
        ELSE IF d.phoneLen > PHONE_MAX
          THEN [valid |-> FALSE, fields |-> <<"phone">>]
        ELSE IF d.msgLen <= MESSAGE_MIN
          THEN [valid |-> FALSE, fields |-> <<"message">>]
        ELSE IF d.msgLen > MESSAGE_MAX
          THEN [valid |-> FALSE, fields |-> <<"message">>]
        ELSE IF d.spam
          THEN [valid |-> FALSE, fields |-> <<>>]
        ELSE IF invalidFields # <<>>
          THEN [valid |-> FALSE, fields |-> invalidFields]
        ELSE [valid |-> TRUE, fields |-> <<>>]

(* validateFormData: the first rule that returns decides; name and empty
   email are only collected and reported at the end *)
validateFormData(d) ==
    LET nameBad == d.nameLen < NAME_MIN
        emailBad == d.emailLen = 0
        invalidFields == (IF nameBad THEN <<"name">> ELSE <<>>)
                         \o (IF emailBad THEN <<"email">> ELSE <<>>)
    IN  IF d.nameLen > NAME_MAX
          THEN [valid |-> FALSE, fields |-> <<"name">>]
        ELSE IF d.emailLen > 0 /\ ~d.emailOk
          THEN [valid |-> FALSE, fields |-> <<"email">>]
        ELSE IF d.emailLen > EMAIL_MAX
          THEN [valid |-> FALSE, fields |-> <<"email">>]
        ELSE IF d.phoneLen > 0 /\ ~d.phoneOk
          THEN [valid |-> FALSE, fields |-> <<"phone">>]
        ELSE IF d.phoneLen > PHONE_MAX
          THEN [valid |-> FALSE, fields |-> <<"phone">>]
        ELSE IF d.msgLen < MESSAGE_MIN
          THEN [valid |-> FALSE, fields |-> <<"message">>]
        ELSE IF d.msgLen > MESSAGE_MAX
          THEN [valid |-> FALSE, fields |-> <<"message">>]
        ELSE IF d.spam
          THEN [valid |-> FALSE, fields |-> <<>>]
        ELSE IF invalidFields # <<>>
          THEN [valid |-> FALSE, fields |-> invalidFields]
        ELSE [valid |-> TRUE, fields |-> <<>>]

(* ---- RateLimiter.checkLimit on one key ---- *)
KeepRecent_Inclusive(atts, t, windowMs) ==
    SelectSeq(atts, LAMBDA ts : t - ts <= windowMs)

(* attempts[key].filter(timestamp => now - timestamp < windowMs) *)
KeepRecent(atts, t, windowMs) ==
    SelectSeq(atts, LAMBDA ts : t - ts < windowMs)

checkLimit_NoRecord(atts, t, maxAttempts, windowMs) ==
    LET kept == KeepRecent(atts, t, windowMs)
    IN  IF Len(kept) >= maxAttempts
          THEN [allowed |-> FALSE,
                waitTime |-> CeilDiv(windowMs - (t - SeqMin(kept)), 1000),
                attempts |-> kept]
          ELSE [allowed |-> TRUE, waitTime |-> 0, attempts |-> kept]

checkLimit(atts, t, maxAttempts, windowMs) ==
    LET kept == KeepRecent(atts, t, windowMs)
    IN  IF Len(kept) >= maxAttempts
          THEN [allowed |-> FALSE,
                waitTime |-> CeilDiv(windowMs - (t - SeqMin(kept)), 1000),
                attempts |-> kept]
          ELSE [allowed |-> TRUE, waitTime |-> 0,
                attempts |-> Append(kept, t)]

VARIABLES
    now,            \* Date.now()
    ticks,          \* clock advances so far
    overlaps,       \* replays started while another one was running
    calls,          \* checkLimit calls so far, counted up to MAX_ATTEMPTS + 1
    online,         \* navigator.onLine
    initialized,    \* FormHandler.init has run
    rlAttempts,     \* RateLimiter.attempts['contact-form']
    pending,        \* FormHandler.pendingSubmissions
    stored,         \* localStorage['vuanh_pending_submissions']
    csrf,           \* sessionStorage['csrf_token']
    nextId,         \* next fresh submission
    hsInFlight,     \* handleSubmit calls awaiting sendSubmission
    replays,        \* sendPendingSubmissions calls, by slot
    delivered,      \* submissions whose delivery attempt succeeded
    onlineFailed,   \* submissions whose handleSubmit failed while online
    message,        \* showMessage call of the last step
    lastCheck,      \* checkLimit call of the last step
    lastValidation, \* validateFormData call of the last step
    lastSubmit,     \* handleSubmit call that resumed in the last step
    lastReplay,     \* sendPendingSubmissions call the last step completed
    translations,   \* i18n.translations
    swState,        \* state of the service worker of this generation
    caches,         \* CacheStorage: the caches by name
    keysSeen,       \* cacheNames that caches.keys() gave the activate handler
    deleting,       \* caches.delete calls of the activate handler in flight
    claimed,        \* self.clients.claim() has been called
    skipWaiting,    \* self.skipWaiting() has been called
    precacheFailed, \* cache.addAll(PRECACHE_URLS) rejected
    response,       \* outcome of the last fetch or sync event handled
    inbox,          \* SYNC_FORMS messages posted to the page, not yet handled
    otherInitialized, \* FormHandler.init has run in a second page session
    otherPending,   \* FormHandler.pendingSubmissions of the second session
    validated,      \* argument and result of a validateFormData call
    fresh,          \* URLs a cache was given a response for by this worker
    currentLang,    \* i18n.currentLang
    loads,          \* i18n.init and i18n.switchLanguage calls in progress
    i18nInitCalled  \* i18n.init has been called

vars == <<now, ticks, overlaps, calls, online, initialized, rlAttempts, pending, stored,
          csrf, nextId, hsInFlight, replays, delivered, onlineFailed,
          message, lastCheck, lastValidation, lastSubmit, lastReplay,
          translations, swState, caches, keysSeen, deleting, claimed,
          skipWaiting, precacheFailed, response, inbox, otherInitialized,
          otherPending, validated, fresh, currentLang, loads, i18nInitCalled>>

(* the service worker's state *)
swVars == <<swState, caches, keysSeen, deleting, claimed, skipWaiting,
            precacheFailed, response, inbox, fresh>>

(* a second page session of the same origin *)
otherVars == <<otherInitialized, otherPending>>

(* the i18n object *)
langVars == <<currentLang, loads, i18nInitCalled>>

(* the state outside FormHandler and RateLimiter *)
extVars == <<translations, swVars, otherVars, validated, langVars>>

(* ---- submissions ---- *)
Submission(i, f, t) == [id |-> i, form |-> f, timestamp |-> t]

OldSubmission(k) == Submission(0 - k, GoodForm, 0)

InitStored ==
    { NoItem, Corrupt, Json(<<OldSubmission(1)>>) }

Slots == 1..(MaxOverlaps + 1)

LoadSlots == 1..MaxLoads

NewIds == 1..MaxSubs

IdleReplay ==
    [pc |-> "idle", arr |-> <<>>, live |-> FALSE, idx |-> 0,
     results |-> <<>>, start |-> <<>>, alone |-> TRUE]

Active(r) == replays[r].pc # "idle"

Msg(t, k) == [type |-> t, kind |-> k]

NoMsg == Msg("none", "none")

NoCheck == [called |-> FALSE, allowed |-> TRUE, waitTime |-> 0]

NoValidation == [called |-> FALSE, valid |-> TRUE, fields |-> <<>>]

NoSubmit == [id |-> 0, ok |-> FALSE, saved |-> FALSE]

NoReplay ==
    [start |-> <<>>, results |-> <<>>, alone |-> FALSE, saved |-> FALSE,
     done |-> FALSE]

(* ---- i18n ---- *)

(* i18n.translations: the empty object it starts as, or the table of the
   language file, whose contact.form.errorRate entry has a {time} parameter *)
NoTranslations == "empty"

supportedLangs == {"en", "vi", "cn"}

defaultLang == "en"

(* the table that i18n/<lang>.json holds, named by its language *)
TranslationsOf(lang) == lang

LanguageFile == TranslationsOf(defaultLang)

(* no i18n call in progress in a slot *)
NoLoad == [pc |-> "idle", fn |-> "none", lang |-> defaultLang,
           file |-> defaultLang]

NoValidated ==
    [called |-> FALSE, data |-> GoodForm,
     result |-> [valid |-> TRUE, fields |-> <<>>]]

NoTime == 0 - 1

(* i18n.t with a time parameter: the entry with {time} replaced, or the key
   path itself when the key is not in the table *)
i18n_t(keyPath, time) ==
    IF translations # NoTranslations
      THEN [key |-> keyPath, found |-> TRUE, time |-> time]
      ELSE [key |-> keyPath, found |-> FALSE, time |-> NoTime]

(* showMessage(i18n.t('contact.form.errorRate', {time}), 'error') *)
RateMsg(text) == [type |-> "error", kind |-> "rate", text |-> text]

(* ---- service worker: values ---- *)

CACHE_NAME == "vuanh-v1.0.0"

RUNTIME_CACHE == "vuanh-runtime"

(* caches that earlier generations of the worker left behind *)
OldCacheNames == {"vuanh-v0.8.0", "vuanh-v0.9.0"}

CacheNames == {CACHE_NAME, RUNTIME_CACHE} \cup OldCacheNames

FONT_CSS == "https://fonts.googleapis.com/css2"

FORM_ENDPOINT == "https://formspree.io/f/form"

(* the manifest, by three of its entries: the shell page, a same-origin
   asset and the cross-origin font stylesheet *)
PRECACHE_URLS == {"/index.html", "/style.css", FONT_CSS}

NoCache == [exists |-> FALSE, entries |-> {}]

Cache(urls) == [exists |-> TRUE, entries |-> urls]

ExistingCaches(cs) == {c \in CacheNames : cs[c].exists}

(* caches.open: the cache of that name, created empty when there is none *)
Opened(cs, name) ==
    IF cs[name].exists THEN cs ELSE [cs EXCEPT ![name] = Cache({})]

(* cache.put and cache.addAll on an open cache *)
WithEntries(cs, name, urls) ==
    [cs EXCEPT ![name] = Cache(cs[name].entries \cup urls)]

(* caches.delete *)
Deleted(cs, name) == [cs EXCEPT ![name] = NoCache]

NoResponse == [route |-> "none"]

(* what the worker of the earlier generation left in CacheStorage *)
InitCaches ==
    { [c \in CacheNames |->
         IF c \in old THEN Cache({"/index.html"})
         ELSE IF c = RUNTIME_CACHE /\ rt THEN Cache({"/about", "/photo.jpg"})
         ELSE NoCache] : old \in SUBSET OldCacheNames, rt \in BOOLEAN }

(* no service worker of this generation yet, and nothing cached *)
WorkerParsed ==
    /\ swState = "parsed"
    /\ keysSeen = {}
    /\ deleting = {}
    /\ claimed = FALSE
    /\ skipWaiting = FALSE
    /\ precacheFailed = FALSE
    /\ response = NoResponse
    /\ inbox = 0
    /\ fresh = {}

PageInit ==
    /\ now = 0
    /\ ticks = 0
    /\ calls = 0
    /\ overlaps = 0
    /\ online \in BOOLEAN
    /\ initialized = FALSE
    /\ rlAttempts = <<>>
    /\ pending = <<>>
    /\ stored \in InitStored
    /\ csrf = 0
    /\ nextId = 1
    /\ hsInFlight = {}
    /\ replays = [r \in Slots |-> IdleReplay]
    /\ delivered = {}
    /\ onlineFailed = {}
    /\ message = NoMsg
    /\ lastCheck = NoCheck
    /\ lastValidation = NoValidation
    /\ lastSubmit = NoSubmit
    /\ lastReplay = NoReplay
    /\ translations = NoTranslations
    /\ otherInitialized = FALSE
    /\ otherPending = <<>>
    /\ validated = NoValidated
    /\ currentLang = defaultLang
    /\ loads = [s \in LoadSlots |-> NoLoad]
    /\ i18nInitCalled = FALSE

Init ==
    /\ PageInit
    /\ WorkerParsed
    /\ caches = [c \in CacheNames |-> NoCache]

(* a step that shows no message and calls none of the observed functions *)
Quiet ==
    /\ message' = NoMsg
    /\ lastCheck' = NoCheck
    /\ lastValidation' = NoValidation
    /\ lastSubmit' = NoSubmit
    /\ lastReplay' = NoReplay

CountCall == IF calls <= MAX_ATTEMPTS THEN calls + 1 ELSE calls

(* loadPendingSubmissions: a missing item leaves the queue as it is, an
   unparsable one empties it *)
loadPendingSubmissions ==
    IF stored.state = "absent" THEN pending
    ELSE IF stored.state = "corrupt" THEN <<>>
    ELSE stored.queue

FormHandlerInit_SendsWhenOnline ==
    /\ ~initialized
    /\ initialized' = TRUE
    /\ pending' = loadPendingSubmissions
    /\ replays' = IF online /\ pending' # <<>>
                    THEN [replays EXCEPT ![1] =
                            [pc |-> "awaiting", arr |-> pending',
                             live |-> TRUE, idx |-> 1, results |-> <<>>,
                             start |-> pending', alone |-> TRUE]]
                    ELSE replays
    /\ Quiet
    /\ UNCHANGED <<now, ticks, overlaps, calls, online, rlAttempts, stored, csrf,
                   nextId, hsInFlight, delivered, onlineFailed,
                   extVars>>

(* FormHandler.init: loadPendingSubmissions, then setupOnlineListener *)
FormHandlerInit ==
    /\ ~initialized
    /\ initialized' = TRUE
    /\ pending' = loadPendingSubmissions
    /\ Quiet
    /\ UNCHANGED <<now, ticks, overlaps, calls, online, rlAttempts, stored, csrf,
                   nextId, hsInFlight, replays, delivered, onlineFailed,
                   extVars>>

savePendingSubmissions_DropsLast(queue, writeOk) ==
    IF writeOk /\ queue # <<>>
      THEN Json(SubSeq(queue, 1, Len(queue) - 1))
      ELSE stored

(* savePendingSubmissions: setItem of the whole in-memory queue; a throw is
   caught and logged, the stored item stays as it was *)
savePendingSubmissions(queue, writeOk) ==
    IF writeOk THEN Json(queue) ELSE stored

GoOffline ==
    /\ online
    /\ online' = FALSE
    /\ Quiet
    /\ UNCHANGED <<now, ticks, overlaps, calls, initialized, rlAttempts, pending,
                   stored, csrf, nextId, hsInFlight, replays, delivered,
                   onlineFailed,
                   extVars>>

(* i18n.init: loadTranslations fetches the language file; when the fetch
   fails, also for the default language, the table stays empty *)
LoadTranslations(ok) ==
    /\ translations = NoTranslations
    /\ translations' = IF ok THEN LanguageFile ELSE translations
    /\ Quiet
    /\ UNCHANGED <<now, ticks, overlaps, calls, online, initialized,
                   rlAttempts, pending, stored, csrf, nextId, hsInFlight,
                   replays, delivered, onlineFailed, swVars, otherVars,
                   validated, langVars>>

(* ---- i18n: init and switchLanguage, fetch by fetch ---- *)

(* the languages a caller may ask for: the supported ones and another *)
LangInputs == supportedLangs \cup {"fr"}

FreeLoadSlot(s) ==
    /\ loads[s].pc = "idle"
    /\ \A q \in LoadSlots : q < s => loads[q].pc # "idle"

(* loadTranslations(lang) up to its await of fetch(`i18n/${lang}.json`) *)
StartLoad(fn, lang) ==
    \E s \in LoadSlots :
       /\ FreeLoadSlot(s)
       /\ loads' = [loads EXCEPT ![s] = [pc |-> "fetch", fn |-> fn,
                                          lang |-> lang, file |-> lang]]

i18nFrame ==
    /\ Quiet
    /\ UNCHANGED <<now, ticks, overlaps, calls, online, initialized,
                   rlAttempts, pending, stored, csrf, nextId, hsInFlight,
                   replays, delivered, onlineFailed, swVars, otherVars,
                   validated>>

(* i18n.init up to its await: currentLang is what detectLanguage returns *)
I18nInit(lang) ==
    /\ ~i18nInitCalled
    /\ i18nInitCalled' = TRUE
    /\ currentLang' = lang
    /\ StartLoad("init", lang)
    /\ UNCHANGED translations
    /\ i18nFrame

(* i18n.switchLanguage(lang) up to its await: nothing for an unsupported
   language or the current one *)
SwitchLanguage(lang) ==
    /\ IF lang \notin supportedLangs \/ lang = currentLang
         THEN UNCHANGED loads
         ELSE StartLoad("switch", lang)
    /\ UNCHANGED <<translations, currentLang, i18nInitCalled>>
    /\ i18nFrame

(* loadTranslations returns to init or to switchLanguage, which sets
   currentLang when the load reported success *)
LoadReturns(s, success) ==
    /\ loads' = [loads EXCEPT ![s] = NoLoad]
    /\ currentLang' = IF loads[s].fn = "switch" /\ success
                        THEN loads[s].lang ELSE currentLang

(* the catch block of loadTranslations: another language than the default
   one falls back to the default language, whose result is returned *)
LoadFailed(s) ==
    IF loads[s].file # defaultLang
      THEN /\ loads' = [loads EXCEPT ![s].pc = "fetch",
                                     ![s].file = defaultLang]
           /\ UNCHANGED currentLang
      ELSE LoadReturns(s, FALSE)

(* the fetch of a language file settles: ok, or not ok or rejected *)
FetchSettles(s, ok) ==
    /\ loads[s].pc = "fetch"
    /\ IF ok
         THEN /\ loads' = [loads EXCEPT ![s].pc = "json"]
              /\ UNCHANGED currentLang
         ELSE LoadFailed(s)
    /\ UNCHANGED <<translations, i18nInitCalled>>
    /\ i18nFrame

(* response.json() settles: the table is assigned, or the body did not
   parse *)
JsonSettles(s, ok) ==
    /\ loads[s].pc = "json"
    /\ IF ok
         THEN /\ translations' = TranslationsOf(loads[s].file)
              /\ LoadReturns(s, TRUE)
         ELSE /\ UNCHANGED translations
              /\ LoadFailed(s)
    /\ UNCHANGED i18nInitCalled
    /\ i18nFrame

(* ---- RateLimiter ---- *)

ClockSteps == {1, WINDOW_MS - 1, WINDOW_MS}

(* time passes *)
Tick(d) ==
    /\ ticks < MaxTicks
    /\ ticks' = ticks + 1
    /\ now' = now + d
    /\ Quiet
    /\ UNCHANGED <<overlaps, calls, online, initialized, rlAttempts, pending, stored,
                   csrf, nextId, hsInFlight, replays, delivered,
                   onlineFailed,
                   extVars>>

(* RateLimiter.checkLimit('contact-form', 3, 300000) on its own *)
CheckLimitCall ==
    LET chk == checkLimit(rlAttempts, now, MAX_ATTEMPTS, WINDOW_MS)
    IN  /\ rlAttempts' = chk.attempts
        /\ calls' = CountCall
        /\ lastCheck' = [called |-> TRUE, allowed |-> chk.allowed,
                         waitTime |-> chk.waitTime]
        /\ message' = NoMsg
        /\ lastValidation' = NoValidation
        /\ lastSubmit' = NoSubmit
        /\ lastReplay' = NoReplay
        /\ UNCHANGED <<now, ticks, overlaps, online, initialized, pending, stored,
                       csrf, nextId, hsInFlight, replays, delivered,
                       onlineFailed,
                       extVars>>

(* FormHandler.validateFormData(data) on its own, called once *)
ValidateCall(d) ==
    /\ ~validated.called
    /\ validated' = [called |-> TRUE, data |-> d,
                     result |-> validateFormData(d)]
    /\ Quiet
    /\ UNCHANGED <<now, ticks, overlaps, calls, online, initialized,
                   rlAttempts, pending, stored, csrf, nextId, hsInFlight,
                   replays, delivered, onlineFailed, translations, swVars,
                   otherVars, langVars>>

(* ---- handleSubmit ---- *)

(* queueOfflineSubmission's push: it mutates the array object that
   this.pendingSubmissions names, so a for-of loop running over that same
   object sees the new element *)
PushToReplays(s) ==
    [r \in Slots |->
        IF Active(r) /\ replays[r].live
          THEN [replays[r] EXCEPT !.arr = Append(@, s), !.alone = FALSE]
          ELSE IF Active(r) THEN [replays[r] EXCEPT !.alone = FALSE]
          ELSE replays[r]]

(* setFormState: the submit button is disabled from the moment the fetch is
   issued until the finally block, so no second submit event arrives *)
FormDisabled == hsInFlight # {}

SubmitBranch_NoReturn(allowed, valid) ==
    IF ~allowed THEN "rate" ELSE "send"

(* the early returns of handleSubmit *)
SubmitBranch(allowed, valid) ==
    IF ~allowed THEN "rate"
    ELSE IF ~valid THEN "invalid"
    ELSE "send"

(* handleSubmit up to its await: rate limit, validation, CSRF token, and
   the fetch that sendSubmission issues *)
HandleSubmit(f, csrfOk) ==
    LET chk == checkLimit(rlAttempts, now, MAX_ATTEMPTS, WINDOW_MS)
        validation == validateFormData(f)
        branch == SubmitBranch(chk.allowed, validation.valid)
    IN  /\ initialized
        /\ ~FormDisabled
        /\ branch = "send" => nextId <= MaxSubs
        /\ rlAttempts' = chk.attempts
        /\ calls' = CountCall
        /\ lastCheck' = [called |-> TRUE, allowed |-> chk.allowed,
                         waitTime |-> chk.waitTime]
        /\ lastValidation' =
             IF branch = "rate" THEN NoValidation
             ELSE [called |-> TRUE, valid |-> validation.valid,
                   fields |-> validation.fields]
        /\ IF branch = "rate"
             THEN /\ message' = RateMsg(i18n_t("contact.form.errorRate",
                                                 chk.waitTime))
                  /\ UNCHANGED <<csrf, nextId, hsInFlight>>
           ELSE IF branch = "invalid"
             THEN /\ message' = Msg("error", "validation")
                  /\ UNCHANGED <<csrf, nextId, hsInFlight>>
           ELSE /\ csrf' = IF csrfOk THEN nextId ELSE csrf
                /\ hsInFlight' = hsInFlight \cup {Submission(nextId, f, now)}
                /\ nextId' = nextId + 1
                /\ message' = NoMsg
        /\ lastSubmit' = NoSubmit
        /\ lastReplay' = NoReplay
        /\ UNCHANGED <<now, ticks, overlaps, online, initialized, pending, stored,
                       replays, delivered, onlineFailed,
                       extVars>>

SubmitOutcome_QueueAnyFailure(ok, onLine) ==
    IF ok THEN "sent" ELSE "queued"

SubmitOutcome_QueueWhenOffline(ok, onLine) ==
    IF ~onLine THEN "queued" ELSE IF ok THEN "sent" ELSE "error"

(* the try/catch around sendSubmission: success, or a failure that is
   queued when navigator.onLine is false and reported otherwise *)
SubmitOutcome(ok, onLine) ==
    IF ok THEN "sent"
    ELSE IF ~onLine THEN "queued"
    ELSE "error"

(* handleSubmit after its await: sendSubmission resolved (ok) or threw *)
HandleSubmitResume(i, ok, writeOk) ==
    LET s == CHOOSE x \in hsInFlight : x.id = i
        outcome == SubmitOutcome(ok, online)
    IN  /\ \E x \in hsInFlight : x.id = i
        /\ hsInFlight' = hsInFlight \ {s}
        /\ delivered' = IF ok THEN delivered \cup {s.id} ELSE delivered
        /\ onlineFailed' = IF ~ok /\ online THEN onlineFailed \cup {s.id}
                           ELSE onlineFailed
        /\ lastSubmit' = [id |-> s.id, ok |-> ok, saved |-> writeOk]
        /\ IF outcome = "sent"
             THEN /\ message' = Msg("success", "sent")
                  /\ UNCHANGED <<pending, stored, replays>>
           ELSE IF outcome = "queued"
             THEN /\ pending' = Append(pending, s)
                  /\ replays' = PushToReplays(s)
                  /\ stored' = savePendingSubmissions(pending', writeOk)
                  /\ message' = Msg("warning", "queued")
           ELSE /\ message' = Msg("error", "delivery")
                /\ UNCHANGED <<pending, stored, replays>>
        /\ lastCheck' = NoCheck
        /\ lastValidation' = NoValidation
        /\ lastReplay' = NoReplay
        /\ UNCHANGED <<now, ticks, overlaps, calls, online, initialized, rlAttempts,
                       csrf, nextId,
                       extVars>>

(* ---- sendPendingSubmissions ---- *)

Result(s, ok) == [submission |-> s, success |-> ok]

Submissions(results) == [i \in 1..Len(results) |-> results[i].submission]

FailedSubmissions_KeepAll(results) == Submissions(results)

(* results.filter(r => !r.success).map(r => r.submission) *)
FailedSubmissions(results) ==
    Submissions(SelectSeq(results, LAMBDA x : ~x.success))

SuccessCount(results) == Len(SelectSeq(results, LAMBDA x : x.success))

(* the 'online' listener: sendPendingSubmissions up to its first await;
   nothing stops it from starting while an earlier call is still running *)
OnlineEvent ==
    /\ ~online
    /\ online' = TRUE
    /\ IF initialized /\ pending # <<>>
         THEN \E r \in Slots :
                /\ ~Active(r)
                /\ \A q \in Slots : q < r => Active(q)
                /\ (\E o \in Slots : Active(o)) => overlaps < MaxOverlaps
                /\ overlaps' = IF \E o \in Slots : Active(o)
                                 THEN overlaps + 1 ELSE overlaps
                /\ replays' =
                     [q \in Slots |->
                        IF q = r
                          THEN [pc |-> "awaiting", arr |-> pending,
                                live |-> TRUE, idx |-> 1, results |-> <<>>,
                                start |-> pending,
                                alone |-> \A o \in Slots : ~Active(o)]
                          ELSE IF Active(q)
                            THEN [replays[q] EXCEPT !.alone = FALSE]
                            ELSE replays[q]]
         ELSE UNCHANGED <<replays, overlaps>>
    /\ Quiet
    /\ UNCHANGED <<now, ticks, calls, initialized, rlAttempts, pending,
                   stored, csrf, nextId, hsInFlight, delivered, onlineFailed,
                   extVars>>

IterHasNext_SkipsLast(me) == me.idx < Len(me.arr) - 1

(* the array iterator of the for-of loop: it reads the length of the array
   each time it is asked for the next element *)
IterHasNext(me) == me.idx < Len(me.arr)

(* the for-of loop asks the array iterator for the next element: either
   sendSubmission is called for it, or the loop is over and the queue is
   replaced by the failed submissions, saved, and the count reported *)
ContinueReplay(r, results, writeOk) ==
    LET me == replays[r]
    IN  IF IterHasNext(me)
          THEN /\ replays' = [replays EXCEPT ![r] =
                                [me EXCEPT !.results = results,
                                           !.idx = me.idx + 1,
                                           !.pc = "awaiting"]]
               /\ message' = NoMsg
               /\ lastReplay' = NoReplay
               /\ UNCHANGED <<pending, stored>>
          ELSE /\ pending' = FailedSubmissions(results)
               /\ stored' = savePendingSubmissions(pending', writeOk)
               /\ replays' =
                     [q \in Slots |->
                        IF q = r THEN IdleReplay
                        ELSE [replays[q] EXCEPT !.live = FALSE]]
               /\ message' = IF SuccessCount(results) > 0
                               THEN Msg("success", "replayed")
                               ELSE NoMsg
               /\ lastReplay' = [start |-> me.start, results |-> results,
                                 alone |-> me.alone, saved |-> writeOk,
                                 done |-> TRUE]

(* the awaited sendSubmission of a replay resolves or throws *)
ReplayResume(r, ok, writeOk) ==
    LET me == replays[r]
        cur == me.arr[me.idx]
    IN  /\ me.pc = "awaiting"
        /\ IF ok
             THEN /\ replays' = [replays EXCEPT ![r] =
                                   [me EXCEPT !.results =
                                                 Append(@, Result(cur, TRUE)),
                                              !.pc = "delay"]]
                  /\ delivered' = delivered \cup {cur.id}
                  /\ message' = NoMsg
                  /\ lastReplay' = NoReplay
                  /\ UNCHANGED <<pending, stored>>
             ELSE /\ ContinueReplay(r, Append(me.results, Result(cur, FALSE)),
                                    writeOk)
                  /\ UNCHANGED delivered
        /\ lastCheck' = NoCheck
        /\ lastValidation' = NoValidation
        /\ lastSubmit' = NoSubmit
        /\ UNCHANGED <<now, ticks, overlaps, calls, online, initialized, rlAttempts,
                       csrf, nextId, hsInFlight, onlineFailed,
                       extVars>>

(* the setTimeout after a successful replay delivery fires *)
ReplayTimer(r, writeOk) ==
    /\ replays[r].pc = "delay"
    /\ ContinueReplay(r, replays[r].results, writeOk)
    /\ lastCheck' = NoCheck
    /\ lastValidation' = NoValidation
    /\ lastSubmit' = NoSubmit
    /\ UNCHANGED <<now, ticks, overlaps, calls, online, initialized, rlAttempts, csrf,
                   nextId, hsInFlight, delivered, onlineFailed,
                   extVars>>

(* ---- service worker: install and activate ---- *)

pageVars == <<now, ticks, overlaps, calls, online, initialized, rlAttempts,
              pending, stored, csrf, nextId, hsInFlight, replays, delivered,
              onlineFailed, message, lastCheck, lastValidation, lastSubmit,
              lastReplay, translations, otherVars, validated, langVars>>

(* the 'install' listener up to the await of cache.addAll: caches.open has
   created the cache of this generation *)
InstallEvent ==
    /\ swState = "parsed"
    /\ swState' = "installing"
    /\ caches' = Opened(caches, CACHE_NAME)
    /\ response' = NoResponse
    /\ UNCHANGED <<keysSeen, deleting, claimed, skipWaiting, precacheFailed,
                   inbox, fresh, pageVars>>

(* the promise the install listener gives to waitUntil: the chain ends in a
   .catch that logs and returns, so it is fulfilled also when addAll
   rejected *)
InstallPromise(failed) ==
    IF failed = {} THEN "fulfilled" ELSE "fulfilled"

(* cache.addAll settles: with every entry fetched, all are stored and
   skipWaiting is called; with any fetch failed, nothing is stored *)
PrecacheSettles(failed) ==
    /\ swState = "installing"
    /\ IF failed = {}
         THEN /\ caches' = WithEntries(caches, CACHE_NAME, PRECACHE_URLS)
              /\ fresh' = fresh \cup PRECACHE_URLS
              /\ skipWaiting' = TRUE
              /\ precacheFailed' = FALSE
         ELSE /\ precacheFailed' = TRUE
              /\ UNCHANGED <<caches, fresh, skipWaiting>>
    /\ swState' = IF InstallPromise(failed) = "fulfilled"
                    THEN "installed" ELSE "redundant"
    /\ response' = NoResponse
    /\ UNCHANGED <<keysSeen, deleting, claimed, inbox, pageVars>>

ShouldDelete_Either(cacheName) ==
    cacheName # CACHE_NAME \/ cacheName # RUNTIME_CACHE

(* cacheName !== CACHE_NAME && cacheName !== RUNTIME_CACHE *)
ShouldDelete(cacheName) ==
    cacheName # CACHE_NAME /\ cacheName # RUNTIME_CACHE

(* the 'activate' listener up to the await of Promise.all: caches.keys()
   has resolved and a caches.delete is issued for each cache to delete.
   An installed worker is activated at once after skipWaiting, and otherwise
   when no page uses the earlier worker *)
ActivateEvent ==
    /\ swState = "installed"
    /\ swState' = "activating"
    /\ keysSeen' = ExistingCaches(caches)
    /\ deleting' = {c \in ExistingCaches(caches) : ShouldDelete(c)}
    /\ response' = NoResponse
    /\ UNCHANGED <<caches, claimed, skipWaiting, precacheFailed, inbox,
                   fresh, pageVars>>

(* one caches.delete of the activate handler completes *)
CacheDeleted(c) ==
    /\ c \in deleting
    /\ caches' = Deleted(caches, c)
    /\ deleting' = deleting \ {c}
    /\ response' = NoResponse
    /\ UNCHANGED <<swState, keysSeen, claimed, skipWaiting, precacheFailed,
                   inbox, fresh, pageVars>>

ClaimReady_NoWait(d) == TRUE

(* Promise.all(...).then(...): the claim waits for every delete *)
ClaimReady(d) == d = {}

(* the activate handler calls self.clients.claim() and completes *)
ClaimClients ==
    /\ swState = "activating"
    /\ ClaimReady(deleting)
    /\ claimed' = TRUE
    /\ swState' = "activated"
    /\ response' = NoResponse
    /\ UNCHANGED <<caches, keysSeen, deleting, skipWaiting, precacheFailed,
                   inbox, fresh, pageVars>>

(* ---- service worker: fetch ---- *)

LocationOrigin == "https://vuanh.example"

FontOrigins == {"https://fonts.googleapis.com", "https://fonts.gstatic.com"}

Request(u, o, h, m, dst) ==
    [url |-> u, origin |-> o, hostname |-> h, mode |-> m, destination |-> dst]

SameOrigin(u, m, dst) == Request(u, LocationOrigin, "vuanh.example", m, dst)

(* the requests that reach the fetch listener: two navigations, a
   stylesheet, a script and an image of the site, the font stylesheet, a
   form delivery and a request to some other origin *)
Requests ==
    { SameOrigin("/index.html", "navigate", "document"),
      SameOrigin("/about", "navigate", "document"),
      SameOrigin("/style.css", "no-cors", "style"),
      SameOrigin("/photo.jpg", "no-cors", "image"),
      Request(FONT_CSS, "https://fonts.googleapis.com",
              "fonts.googleapis.com", "cors", "style"),
      Request(FORM_ENDPOINT, "https://formspree.io", "formspree.io",
              "cors", ""),
      Request("https://cdn.example/lib.js", "https://cdn.example",
              "cdn.example", "no-cors", "script") }

(* fetch(request): a response with an ok status, a response with another
   status, or a rejection *)
NetOutcomes == {"ok", "notok", "error"}

(* JavaScript strings: a text, or a binary string given by its code units *)
TextString(name) == [text |-> name, units |-> <<>>]

BinaryString(units) == [text |-> "", units |-> units]

Base64Alphabet ==
    << "A", "B", "C", "D", "E", "F", "G", "H", "I", "J", "K", "L", "M", "N", "O", "P",
       "Q", "R", "S", "T", "U", "V", "W", "X", "Y", "Z", "a", "b", "c", "d", "e", "f",
       "g", "h", "i", "j", "k", "l", "m", "n", "o", "p", "q", "r", "s", "t", "u", "v",
       "w", "x", "y", "z", "0", "1", "2", "3", "4", "5", "6", "7", "8", "9", "+", "/" >>

Base64Value(ch) == (CHOOSE i \in 1..64 : Base64Alphabet[i] = ch) - 1

(* atob on an input without padding: four characters give three bytes *)
RECURSIVE Base64Decode(_)
Base64Decode(chars) ==
    IF Len(chars) < 4 THEN <<>>
    ELSE LET n == Base64Value(chars[1]) * 262144
                  + Base64Value(chars[2]) * 4096
                  + Base64Value(chars[3]) * 64
                  + Base64Value(chars[4])
         IN  <<n \div 65536, (n \div 256) % 256, n % 256>>
             \o Base64Decode(SubSeq(chars, 5, Len(chars)))

atob(chars) == BinaryString(Base64Decode(chars))

PLACEHOLDER_BASE64 ==
    << "R", "0", "l", "G", "O", "D", "l", "h", "A", "Q", "A", "B", "A", "I",
       "A", "A", "A", "A", "A", "A", "A", "P", "/", "/", "/", "y", "H", "5",
       "B", "A", "E", "A", "A", "A", "A", "A", "L", "A", "A", "A", "A", "A",
       "A", "B", "A", "A", "E", "A", "A", "A", "I", "B", "R", "A", "A", "7" >>

(* UTF-8 of a string of code units below 256: one byte below 128, two bytes
   from 128 on *)
RECURSIVE Utf8Encode(_)
Utf8Encode(units) ==
    IF units = <<>> THEN <<>>
    ELSE (IF units[1] < 128 THEN <<units[1]>>
          ELSE <<192 + (units[1] \div 64), 128 + (units[1] % 64)>>)
         \o Utf8Encode(Tail(units))

(* the body of a Response made from a string is the UTF-8 of the string *)
BodyOf(str) == [text |-> str.text, bytes |-> Utf8Encode(str.units)]

NoBody == [text |-> "", bytes |-> <<>>]

Resp(how, u, st, ct, b) ==
    [answered |-> how, url |-> u, status |-> st, contentType |-> ct,
     body |-> b]

(* new Response(body, {status, headers}): the status is 200 when none is
   given *)
NewResponse(str, st, ct) == Resp("synthetic", "", st, ct, BodyOf(str))

DefaultStatus == 200

(* what fetch(request) resolves with *)
NetworkResponse(request, net) ==
    Resp("network", request.url, IF net = "ok" THEN 200 ELSE 404,
         "network", NoBody)

(* the rejection of the promise given to respondWith, or of the browser's
   own fetch *)
NetworkError(request) == Resp("error", request.url, 0, "", NoBody)

(* caches.match: the entry for the URL in any cache *)
Match(cs, u) == \E c \in CacheNames : cs[c].exists /\ u \in cs[c].entries

CachedResponse(u) == Resp("cache", u, 200, "stored", NoBody)

createOfflinePage == TextString("offline page with retry button")

(* caches.open(name) then cache.put(request, response.clone()) *)
Put(cs, name, request) == WithEntries(Opened(cs, name), name, {request.url})

Handled(r, cs) == [response |-> r, caches |-> cs]

NavigationFallback_NoShell(request, cs) ==
    IF Match(cs, request.url) THEN CachedResponse(request.url)
    ELSE NewResponse(createOfflinePage, DefaultStatus, "text/html")

(* the catch block of handleNavigationRequest *)
NavigationFallback(request, cs) ==
    IF Match(cs, request.url) THEN CachedResponse(request.url)
    ELSE IF Match(cs, "/index.html") THEN CachedResponse("/index.html")
    ELSE NewResponse(createOfflinePage, DefaultStatus, "text/html")

(* handleNavigationRequest: network first *)
handleNavigationRequest(request, net, cs) ==
    IF net = "ok"
      THEN Handled(NetworkResponse(request, net),
                   Put(cs, RUNTIME_CACHE, request))
    ELSE IF net = "notok"
      THEN Handled(NetworkResponse(request, net), cs)
    ELSE Handled(NavigationFallback(request, cs), cs)

(* the catch block of handleResourceRequest *)
ResourceFallback(request) ==
    IF request.destination = "image"
      THEN NewResponse(atob(PLACEHOLDER_BASE64), DefaultStatus, "image/gif")
      ELSE NewResponse(TextString("Resource not available offline"), 503,
                       "text/plain;charset=UTF-8")

handleResourceRequest_PutsAnyResponse(request, net, cs) ==
    IF Match(cs, request.url)
      THEN Handled(CachedResponse(request.url), cs)
    ELSE IF net # "error"
      THEN Handled(NetworkResponse(request, net),
                   Put(cs, RUNTIME_CACHE, request))
    ELSE Handled(ResourceFallback(request), cs)

(* handleResourceRequest: cache first *)
handleResourceRequest(request, net, cs) ==
    IF Match(cs, request.url)
      THEN Handled(CachedResponse(request.url), cs)
    ELSE IF net = "ok"
      THEN Handled(NetworkResponse(request, net),
                   Put(cs, RUNTIME_CACHE, request))
    ELSE IF net = "notok"
      THEN Handled(NetworkResponse(request, net), cs)
    ELSE Handled(ResourceFallback(request), cs)

(* handleFontRequest: cache first, stored in the cache of this generation *)
handleFontRequest(request, net, cs) ==
    IF Match(cs, request.url)
      THEN Handled(CachedResponse(request.url), cs)
    ELSE IF net = "ok"
      THEN Handled(NetworkResponse(request, net),
                   Put(cs, CACHE_NAME, request))
    ELSE IF net = "notok"
      THEN Handled(NetworkResponse(request, net), cs)
    ELSE Handled(NewResponse(TextString("Font not available"), 503,
                             "text/plain;charset=UTF-8"), cs)

(* no respondWith, or respondWith(fetch(request)): the outcome of the
   network *)
NetworkOnly(request, net, cs) ==
    IF net = "error" THEN Handled(NetworkError(request), cs)
    ELSE Handled(NetworkResponse(request, net), cs)

FetchRoute_ByHostOnly(request) ==
    IF request.origin \in FontOrigins THEN "font"
    ELSE IF request.mode = "navigate" THEN "navigation"
    ELSE "resource"

(* the branches of the fetch listener *)
FetchRoute(request) ==
    IF request.origin # LocationOrigin
      THEN IF request.origin \in FontOrigins THEN "font" ELSE "default"
    ELSE IF request.hostname = "formspree.io" THEN "network"
    ELSE IF request.mode = "navigate" THEN "navigation"
    ELSE "resource"

(* the URL a handler calls cache.put for: the request's, when the network
   was asked and its response is ok *)
PutBy(route, request, net, cs) ==
    IF /\ net = "ok"
       /\ \/ route = "navigation"
          \/ route \in {"resource", "font"} /\ ~Match(cs, request.url)
      THEN {request.url}
      ELSE {}

(* a fetch event of a page the worker controls, handled to its response *)
FetchEvent(request, net) ==
    LET route == FetchRoute(request)
        h == IF route = "font" THEN handleFontRequest(request, net, caches)
             ELSE IF route = "navigation"
               THEN handleNavigationRequest(request, net, caches)
             ELSE IF route = "resource"
               THEN handleResourceRequest(request, net, caches)
             ELSE NetworkOnly(request, net, caches)
    IN  /\ swState = "activated"
        /\ response' = [request |-> request, net |-> net, route |-> route,
                         result |-> h.response]
        /\ caches' = h.caches
        /\ fresh' = fresh \cup PutBy(route, request, net, caches)
        /\ UNCHANGED <<swState, keysSeen, deleting, claimed, skipWaiting,
                       precacheFailed, inbox, pageVars>>

(* ---- service worker: background sync ---- *)

SYNC_TAG == "sync-form-submissions"

SyncTags == {SYNC_TAG, "some-other-tag"}

(* clients.matchAll(): the pages this worker controls; the page of the
   model is one of them once the worker has claimed the clients *)
ControlledClients == IF claimed THEN 1 ELSE 0

(* the 'sync' listener: syncFormSubmissions posts SYNC_FORMS to every
   client for the form tag, and nothing happens for another tag *)
SyncEvent(tag) ==
    /\ swState = "activated"
    /\ inbox < MaxInbox
    /\ inbox' = IF tag = SYNC_TAG THEN inbox + ControlledClients ELSE inbox
    /\ response' = [route |-> "sync", tag |-> tag]
    /\ UNCHANGED <<swState, caches, keysSeen, deleting, claimed, skipWaiting,
                   precacheFailed, fresh, pageVars>>

(* the page is delivered a SYNC_FORMS message: no script of the page listens
   to messages of the worker, so nothing is run *)
ClientMessage ==
    /\ inbox > 0
    /\ inbox' = inbox - 1
    /\ Quiet
    /\ UNCHANGED <<now, ticks, overlaps, calls, online, initialized,
                   rlAttempts, pending, stored, csrf, nextId, hsInFlight,
                   replays, delivered, onlineFailed, translations, swState,
                   caches, keysSeen, deleting, claimed, skipWaiting,
                   precacheFailed, response, fresh, otherVars, validated,
                   langVars>>

(* ---- a second page session on the same localStorage ---- *)

(* the submission the second session makes *)
OtherSubmission == Submission(MaxSubs + 1, GoodForm, 0)

(* FormHandler.init in the second session: loadPendingSubmissions *)
OtherInit ==
    /\ ~otherInitialized
    /\ otherInitialized' = TRUE
    /\ otherPending' = IF stored.state = "absent" THEN otherPending
                       ELSE IF stored.state = "corrupt" THEN <<>>
                       ELSE stored.queue
    /\ Quiet
    /\ UNCHANGED <<now, ticks, overlaps, calls, online, initialized,
                   rlAttempts, pending, stored, csrf, nextId, hsInFlight,
                   replays, delivered, onlineFailed, translations, swVars,
                   validated, langVars>>

(* queueOfflineSubmission in the second session: its handleSubmit failed
   offline, the submission is pushed on its own queue and that queue is
   saved *)
OtherQueueOffline(writeOk) ==
    /\ otherInitialized
    /\ ~online
    /\ OtherSubmission.id \notin Ids(otherPending)
    /\ otherPending' = Append(otherPending, OtherSubmission)
    /\ stored' = savePendingSubmissions(otherPending', writeOk)
    /\ Quiet
    /\ UNCHANGED <<now, ticks, overlaps, calls, online, initialized,
                   rlAttempts, pending, csrf, nextId, hsInFlight, replays,
                   delivered, onlineFailed, translations, swVars,
                   otherInitialized, validated, langVars>>

(* ---- specifications ---- *)

(* the page session: valid submissions, deliveries that succeed or fail,
   storage writes that succeed or throw *)
Next ==
    \/ FormHandlerInit
    \/ GoOffline
    \/ OnlineEvent
    \/ \E f \in {GoodForm} : HandleSubmit(f, TRUE)
    \/ \E i \in NewIds, ok \in BOOLEAN, writeOk \in BOOLEAN :
          HandleSubmitResume(i, ok, writeOk)
    \/ \E r \in Slots, ok \in BOOLEAN, writeOk \in BOOLEAN :
          ReplayResume(r, ok, writeOk)
    \/ \E r \in Slots, writeOk \in BOOLEAN : ReplayTimer(r, writeOk)

Spec == Init /\ [][Next]_vars

(* the form handler with valid and invalid forms and storages that may
   throw, while no fetch issued by a replay settles *)
SubmitNext ==
    \/ \E ok \in BOOLEAN : LoadTranslations(ok)
    \/ FormHandlerInit
    \/ GoOffline
    \/ OnlineEvent
    \/ \E f \in FormInputs, csrfOk \in BOOLEAN : HandleSubmit(f, csrfOk)
    \/ \E i \in NewIds, ok \in BOOLEAN, writeOk \in BOOLEAN :
          HandleSubmitResume(i, ok, writeOk)

SubmitSpec == Init /\ [][SubmitNext]_vars

(* the rate limiter alone, under a clock that moves around the window *)
RateNext ==
    \/ \E d \in ClockSteps : Tick(d)
    \/ CheckLimitCall

RateSpec == Init /\ [][RateNext]_vars

(* the page session when every awaited fetch settles and every timer fires *)
FairNext ==
    \/ FormHandlerInit
    \/ GoOffline
    \/ OnlineEvent
    \/ \E f \in {GoodForm} : HandleSubmit(f, TRUE)
    \/ \E i \in NewIds, ok \in BOOLEAN : HandleSubmitResume(i, ok, TRUE)
    \/ \E r \in Slots, ok \in BOOLEAN : ReplayResume(r, ok, TRUE)
    \/ \E r \in Slots : ReplayTimer(r, TRUE)

FairSpec ==
    /\ Init
    /\ [][FairNext]_vars
    /\ \A r \in Slots : WF_vars(\E ok \in BOOLEAN : ReplayResume(r, ok, TRUE))
    /\ \A r \in Slots : WF_vars(ReplayTimer(r, TRUE))

(* the service worker of this generation, from a CacheStorage that earlier
   generations may have filled, and the page it controls *)
WorkerInit ==
    /\ PageInit
    /\ ~online
    /\ stored = Json(<<OldSubmission(1)>>)
    /\ WorkerParsed
    /\ caches \in InitCaches

WorkerNext ==
    \/ InstallEvent
    \/ \E failed \in SUBSET PRECACHE_URLS : PrecacheSettles(failed)
    \/ ActivateEvent
    \/ \E c \in CacheNames : CacheDeleted(c)
    \/ ClaimClients
    \/ \E request \in Requests, net \in NetOutcomes : FetchEvent(request, net)
    \/ \E tag \in SyncTags : SyncEvent(tag)
    \/ ClientMessage
    \/ FormHandlerInit

WorkerSpec == WorkerInit /\ [][WorkerNext]_vars

(* two page sessions that queue submissions while offline *)
TwoSessionNext ==
    \/ FormHandlerInit
    \/ OtherInit
    \/ GoOffline
    \/ \E f \in {GoodForm} : HandleSubmit(f, TRUE)
    \/ \E i \in NewIds, ok \in BOOLEAN, writeOk \in BOOLEAN :
          HandleSubmitResume(i, ok, writeOk)
    \/ \E writeOk \in BOOLEAN : OtherQueueOffline(writeOk)

TwoSessionSpec == Init /\ [][TwoSessionNext]_vars

(* validateFormData on the form data around its limits *)
ValidationInit ==
    /\ Init
    /\ online
    /\ stored = NoItem

ValidationNext == \E d \in FormCases : ValidateCall(d)

ValidationSpec == ValidationInit /\ [][ValidationNext]_vars

(* the form handler with valid and invalid forms next to the replay of a
   stored queue when the connection comes back, while storage accepts
   every write *)
LimiterInit ==
    /\ Init
    /\ ~online
    /\ stored = Json(<<OldSubmission(1)>>)

LimiterNext ==
    \/ FormHandlerInit
    \/ OnlineEvent
    \/ \E f \in FormInputs : HandleSubmit(f, TRUE)
    \/ \E i \in NewIds, ok \in BOOLEAN : HandleSubmitResume(i, ok, TRUE)
    \/ \E r \in Slots, ok \in BOOLEAN : ReplayResume(r, ok, TRUE)
    \/ \E r \in Slots : ReplayTimer(r, TRUE)

LimiterSpec == LimiterInit /\ [][LimiterNext]_vars

(* the i18n object under init, language switches and language files that
   load or fail *)
I18nInitState ==
    /\ Init
    /\ online
    /\ stored = NoItem

I18nNext ==
    \/ \E lang \in supportedLangs : I18nInit(lang)
    \/ \E lang \in LangInputs : SwitchLanguage(lang)
    \/ \E s \in LoadSlots, ok \in BOOLEAN : FetchSettles(s, ok)
    \/ \E s \in LoadSlots, ok \in BOOLEAN : JsonSettles(s, ok)

I18nSpec == I18nInitState /\ [][I18nNext]_vars

(* ---- properties ---- *)

AllIds == {0 - 1} \cup NewIds

Left(before, after) == Ids(before) \ Ids(after)

AwaitingSlots == {r \in Slots : replays[r].pc = "awaiting"}

(* C1: a submission leaves the in-memory queue or the persisted queue only
   in a step after which a delivery attempt for it has succeeded *)
C1_LeavesOnlyWhenDelivered ==
    [][ /\ Left(pending, pending') \subseteq delivered'
        /\ Left(stored.queue, stored'.queue) \subseteq delivered' ]_vars

(* C2: at most one delivery request issued by sendPendingSubmissions is in
   flight at any moment *)
C2_OneReplayDeliveryInFlight == Cardinality(AwaitingSlots) <= 1

Resumed(s) == s \in hsInFlight /\ lastSubmit'.id = s.id

(* C3 as stated: a valid submission whose delivery fails while the client is
   offline is, when handleSubmit returns, the last element of the persisted
   queue, after the submissions queued before, and occurs there once *)
C3_QueuedOfflinePersisted ==
    [][ \A s \in hsInFlight :
          (Resumed(s) /\ ~lastSubmit'.ok /\ ~online)
            => /\ stored' = Json(Append(pending, s))
               /\ s.id \notin Ids(pending) ]_vars

(* C3 amended: the same when the localStorage write does not throw; when it
   throws the persisted queue is left as it was and the submission is in the
   in-memory queue only *)
C3_QueuedOfflinePersistedIfWritten ==
    [][ \A s \in hsInFlight :
          (Resumed(s) /\ ~lastSubmit'.ok /\ ~online)
            => /\ pending' = Append(pending, s)
               /\ s.id \notin Ids(pending)
               /\ stored' = IF lastSubmit'.saved THEN Json(pending')
                            ELSE stored ]_vars

C3_Witness ==
    /\ lastSubmit.id > 0 /\ ~lastSubmit.ok /\ lastSubmit.saved /\ ~online
    /\ Len(stored.queue) = 2
    /\ stored.queue[2].id = lastSubmit.id

(* C4: a handleSubmit call whose delivery succeeds leaves the in-memory and
   the persisted queue as they were, in the step that issues the request
   and in the step that handles the response *)
C4_SuccessLeavesQueue ==
    [][ /\ nextId' # nextId => (pending' = pending /\ stored' = stored)
        /\ \A s \in hsInFlight :
             (Resumed(s) /\ lastSubmit'.ok)
               => (pending' = pending /\ stored' = stored) ]_vars

C4_Witness ==
    /\ lastSubmit.id > 0 /\ lastSubmit.ok
    /\ pending # <<>>
    /\ ~online

InAnyReplay(id) == \E r \in Slots : id \in Ids(replays[r].arr)

(* C5: a submission whose delivery fails while the client is online is not
   queued, an error is shown, and no replay ever holds it *)
C5_OnlineFailureNotQueued ==
    /\ [](\A id \in onlineFailed :
            /\ id \notin Ids(pending)
            /\ id \notin Ids(stored.queue)
            /\ ~InAnyReplay(id))
    /\ [][ \A s \in hsInFlight :
             (Resumed(s) /\ ~lastSubmit'.ok /\ online)
               => /\ message' = Msg("error", "delivery")
                  /\ s.id \in onlineFailed'
                  /\ pending' = pending /\ stored' = stored ]_vars

C5_Witness ==
    /\ onlineFailed # {}
    /\ \E r \in Slots : replays[r].pc = "awaiting"
    /\ lastReplay.done

AttemptInFlight(id) ==
    \E r \in Slots : /\ replays[r].pc = "awaiting"
                     /\ replays[r].arr[replays[r].idx].id = id

(* C6: a queued submission whose delivery never succeeds is, from some
   moment on, no longer attempted by sendPendingSubmissions *)
C6_RejectedNotRetriedForever ==
    \A id \in AllIds :
        [](id \notin delivered) => <>[](~AttemptInFlight(id))

FailedOf(start, results) ==
    SelectSeq(start, LAMBDA s : \E i \in DOMAIN results :
                                   /\ results[i].submission = s
                                   /\ ~results[i].success)

(* a replay ran alone when no other replay was active and no submission was
   queued between its start and its end *)
AloneReplayDone == lastReplay'.done /\ lastReplay'.alone

(* C7 as stated: when a replay that ran alone completes, the in-memory and
   the persisted queue are both the pre-replay queue restricted to the
   submissions whose delivery failed, in order and unchanged *)
C7_QueueIsFailedSubsequence ==
    [][ AloneReplayDone
          => /\ pending' = FailedOf(lastReplay'.start, lastReplay'.results)
             /\ stored' = Json(pending') ]_vars

(* C7 amended: the in-memory queue is that subsequence; the persisted queue
   is the same when the localStorage write does not throw, and is left as it
   was when it throws *)
C7_QueueIsFailedSubsequenceIfWritten ==
    [][ AloneReplayDone
          => /\ pending' = FailedOf(lastReplay'.start, lastReplay'.results)
             /\ stored' = IF lastReplay'.saved THEN Json(pending')
                          ELSE stored ]_vars

C7_Witness ==
    /\ lastReplay.done /\ lastReplay.alone /\ lastReplay.saved
    /\ Len(lastReplay.start) = 2
    /\ lastReplay.results[1].success
    /\ ~lastReplay.results[2].success
    /\ stored = Json(<<lastReplay.start[2]>>)

ReplayInOrder(r) ==
    LET me == replays[r]
    IN  Active(r)
          => /\ IsPrefix(me.start, me.arr)
             /\ Submissions(me.results) = SubSeq(me.arr, 1, Len(me.results))
             /\ me.pc = "awaiting" => me.idx = Len(me.results) + 1
             /\ me.pc = "delay" => me.idx = Len(me.results)

(* C8: an 'online' event that finds a non-empty queue starts a replay over
   that queue; a replay attempts the submissions of its array one by one in
   order; and when every fetch settles and every timer fires each replay
   completes, having attempted every submission queued at its start in
   queue order *)
C8_EveryQueuedEventuallyAttempted ==
    /\ [][ (online' /\ ~online /\ initialized /\ pending # <<>>)
             => \E r \in Slots :
                  /\ ~Active(r)
                  /\ replays'[r].pc = "awaiting"
                  /\ replays'[r].start = pending
                  /\ replays'[r].arr[replays'[r].idx] = pending[1] ]_vars
    /\ [](\A r \in Slots : ReplayInOrder(r))
    /\ [](lastReplay.done
            => IsPrefix(lastReplay.start, Submissions(lastReplay.results)))
    /\ \A r \in Slots : []<>(~Active(r))

C8_Witness ==
    /\ lastReplay.done
    /\ Len(lastReplay.start) = 2
    /\ Len(lastReplay.results) = 2
    /\ ~lastReplay.results[1].success

SubmitRejectedAsInvalid ==
    /\ lastCheck'.called /\ lastCheck'.allowed
    /\ lastValidation'.called /\ ~lastValidation'.valid

(* C9: a handleSubmit call whose validation fails issues no request and
   leaves the in-memory queue, the persisted queue and the stored CSRF
   token as they were *)
C9_InvalidSubmitWritesNothing ==
    [][ SubmitRejectedAsInvalid
          => /\ message' = Msg("error", "validation")
             /\ hsInFlight' = hsInFlight /\ nextId' = nextId
             /\ pending' = pending /\ stored' = stored
             /\ csrf' = csrf ]_vars

C9_Witness ==
    /\ lastValidation.called /\ ~lastValidation.valid
    /\ message = Msg("error", "validation")
    /\ pending # <<>> /\ stored.state = "json"
    /\ csrf # 0

RecentAttempts ==
    {i \in DOMAIN rlAttempts : now - rlAttempts[i] < WINDOW_MS}

(* C10: checkLimit with maxAttempts 3 and windowMs 300000: the first three
   calls are allowed; a call made while three recorded attempts are less
   than windowMs old is rejected with a positive waitTime and records
   nothing; a call made when the oldest recorded attempt is at least
   windowMs old is allowed *)
C10_CheckLimitWindow ==
    [][ lastCheck'.called
          => /\ calls < MAX_ATTEMPTS => lastCheck'.allowed
             /\ Cardinality(RecentAttempts) >= MAX_ATTEMPTS
                  => /\ ~lastCheck'.allowed
                     /\ lastCheck'.waitTime > 0
                     /\ rlAttempts' = rlAttempts
             /\ (rlAttempts # <<>> /\ now - SeqMin(rlAttempts) >= WINDOW_MS)
                  => /\ lastCheck'.allowed
                     /\ rlAttempts'[Len(rlAttempts')] = now ]_vars

C10_Witness ==
    /\ lastCheck.called /\ ~lastCheck.allowed
    /\ lastCheck.waitTime > 0
    /\ calls > MAX_ATTEMPTS
    /\ ticks > 0

RateLimitRejected == lastCheck'.called /\ ~lastCheck'.allowed

(* C11: a handleSubmit call that the rate limiter rejects issues no request,
   leaves the in-memory and the persisted queue as they were, and shows an
   error whose text carries the wait time that checkLimit returned *)
C11_RateLimitedShowsWaitTime ==
    [][ RateLimitRejected
          => /\ hsInFlight' = hsInFlight /\ nextId' = nextId
             /\ pending' = pending /\ stored' = stored
             /\ message'.type = "error"
             /\ message'.text.time = lastCheck'.waitTime ]_vars

ActivateCompletes == swState = "activating" /\ swState' = "activated"

(* C12 as stated: when the activate handler completes, the caches that
   exist are exactly the current generation and the runtime cache *)
C12_ExactlyCurrentAndRuntime ==
    [][ ActivateCompletes
          => ExistingCaches(caches') = {CACHE_NAME, RUNTIME_CACHE} ]_vars

(* C12 amended: when the activate handler completes, the caches that exist
   are the current generation, and the runtime cache if it existed when the
   handler listed the caches; no other cache exists *)
C12_CurrentAndRuntimeIfPresent ==
    [][ ActivateCompletes
          => /\ CACHE_NAME \in ExistingCaches(caches')
             /\ ExistingCaches(caches')
                  = keysSeen \cap {CACHE_NAME, RUNTIME_CACHE} ]_vars

C12_Witness ==
    /\ swState = "activated"
    /\ OldCacheNames \subseteq keysSeen
    /\ ExistingCaches(caches) = {CACHE_NAME}

OldGeneration(c) == c \notin {CACHE_NAME, RUNTIME_CACHE}

(* C13: clients.claim() is called only when every cache of an earlier
   generation that the handler found has been deleted, and from then on no
   cache of an earlier generation exists *)
C13_ClaimAfterOldCachesDeleted ==
    /\ [][ (claimed' /\ ~claimed)
             => \A c \in keysSeen : OldGeneration(c) => ~caches[c].exists ]_vars
    /\ [](claimed => \A c \in ExistingCaches(caches) : ~OldGeneration(c))

C13_Witness ==
    /\ claimed
    /\ keysSeen \cap OldCacheNames # {}
    /\ RUNTIME_CACHE \in keysSeen

(* C14: once a fetch of a manifest entry has failed during install, the
   worker is never installed or activated and no cache is deleted *)
C14_FailedPrecacheAbortsInstall ==
    /\ [](precacheFailed
            => swState \notin {"installed", "activating", "activated"})
    /\ [][ precacheFailed
             => ExistingCaches(caches) \subseteq ExistingCaches(caches') ]_vars

InSomeCache(u) == \E c \in ExistingCaches(caches) : u \in caches[c].entries

NavigationFailed ==
    /\ response'.route = "navigation"
    /\ response'.net = "error"

(* C15: when the network fetch of a same-origin navigation fails, the
   request is answered with its cached entry, else with the cached
   /index.html, else with a synthesized offline page of status 200 and
   Content-Type text/html; it is never answered with an error *)
C15_NavigationFallbackOrder ==
    [][ NavigationFailed
          => LET r == response'.result
                 u == response'.request.url
             IN  /\ r.answered # "error"
                 /\ InSomeCache(u) => (r.answered = "cache" /\ r.url = u)
                 /\ (~InSomeCache(u) /\ InSomeCache("/index.html"))
                      => (r.answered = "cache" /\ r.url = "/index.html")
                 /\ (~InSomeCache(u) /\ ~InSomeCache("/index.html"))
                      => /\ r.answered = "synthetic"
                         /\ r.status = 200
                         /\ r.contentType = "text/html"
                         /\ r.body = BodyOf(createOfflinePage) ]_vars

C15_Witness ==
    /\ response.route = "navigation"
    /\ response.net = "error"
    /\ response.request.url = "/about"
    /\ response.result.answered = "cache"
    /\ response.result.url = "/index.html"

ToFormEndpoint ==
    /\ response'.route \notin {"none", "sync"}
    /\ response'.request.hostname = "formspree.io"

(* C16: no cache ever holds an entry for the form endpoint, and a request
   to it is answered by the network alone: with the network's response, or
   with the network's error *)
C16_FormEndpointNetworkOnly ==
    /\ [](\A c \in CacheNames : FORM_ENDPOINT \notin caches[c].entries)
    /\ [][ ToFormEndpoint
             => /\ response'.result
                     = IF response'.net = "error"
                         THEN NetworkError(response'.request)
                         ELSE NetworkResponse(response'.request,
                                              response'.net)
                /\ caches' = caches ]_vars

C16_Witness ==
    /\ response.route \notin {"none", "sync"}
    /\ response.request.hostname = "formspree.io"
    /\ response.net = "error"
    /\ response.result.answered = "error"
    /\ caches[RUNTIME_CACHE].exists

(* the 42 bytes of the GIF89a file of one transparent pixel *)
TRANSPARENT_GIF ==
    << 71, 73, 70, 56, 57, 97, 1, 0, 1, 0, 128, 0, 0, 0,
       0, 0, 255, 255, 255, 33, 249, 4, 1, 0, 0, 0, 0, 44,
       0, 0, 0, 0, 1, 0, 1, 0, 0, 2, 1, 68, 0, 59 >>

ResourceFailed ==
    /\ response'.route = "resource"
    /\ response'.net = "error"
    /\ ~InSomeCache(response'.request.url)

(* C17: a same-origin request that is no navigation, has no cached entry and
   whose network fetch fails is answered, never with an error, by the
   one-pixel transparent image when it asks for an image and by a response
   of status 503 otherwise *)
C17_ResourceFallback ==
    [][ ResourceFailed
          => LET r == response'.result
             IN  /\ r.answered = "synthetic"
                 /\ IF response'.request.destination = "image"
                      THEN /\ r.contentType = "image/gif"
                           /\ r.body.bytes = TRANSPARENT_GIF
                      ELSE r.status = 503 ]_vars

(* a step of the sync listener: it leaves its outcome and takes no message
   from the page's inbox *)
SyncHandled ==
    /\ response'.route = "sync"
    /\ inbox' >= inbox
    /\ response' # response \/ inbox' # inbox

PageNotified == inbox' < inbox

(* C18: a sync event with the form tag posts SYNC_FORMS to the page, a sync
   event with another tag posts nothing, and the page that is delivered the
   message starts a replay of its queue *)
C18_SyncStartsReplay ==
    /\ [][ SyncHandled
             => inbox' = IF response'.tag = SYNC_TAG THEN inbox + 1
                         ELSE inbox ]_vars
    /\ [][ (PageNotified /\ initialized /\ pending # <<>>)
             => \E r \in Slots : ~Active(r) /\ replays'[r].pc = "awaiting"
        ]_vars

AttemptedBy(results) == {results[i].submission.id : i \in DOMAIN results}

MemoryOnly(s) == s.id \notin Ids(stored.queue)

(* C19: a submission whose storage write throws while it is enqueued is
   still appended to the in-memory queue with the queued notice shown, and
   it stays in the in-memory queue until a replay has attempted it *)
C19_MemoryOnlySubmissionReplayed ==
    /\ [][ \A s \in hsInFlight :
             (Resumed(s) /\ ~lastSubmit'.ok /\ ~online /\ ~lastSubmit'.saved)
               => /\ pending' = Append(pending, s)
                  /\ message' = Msg("warning", "queued") ]_vars
    /\ [][ \A i \in DOMAIN pending :
             (MemoryOnly(pending[i]) /\ pending[i].id \notin Ids(pending'))
               => /\ lastReplay'.done
                  /\ pending[i].id \in AttemptedBy(lastReplay'.results) ]_vars

(* C20: every write of the persisted queue keeps the submissions that were
   persisted and are not delivered, whichever page session wrote them: an
   enqueue appends to the stored sequence, and nothing else is removed *)
C20_WritesKeepOtherSessionsSubmissions ==
    [][ stored' # stored
          => \A id \in Ids(stored.queue) :
                id \in Ids(stored'.queue) \/ id \in delivered' ]_vars

WellFormedEmail(d) == d.emailLen > 0 /\ d.emailOk

PhoneInRange(d) == d.phoneLen > 0 => (d.phoneOk /\ d.phoneLen <= PHONE_MAX)

MessageInRange(d) == d.msgLen >= MESSAGE_MIN /\ d.msgLen <= MESSAGE_MAX

(* C21: form data with a well-formed email and no spam pattern is accepted
   exactly when the name is non-empty and of 100 characters at most, the
   phone, if present, is well-formed and of 20 characters at most, and the
   message has 10 to 5000 characters *)
C21_AcceptedIffNonEmptyNameInRange ==
    (validated.called /\ WellFormedEmail(validated.data)
       /\ ~validated.data.spam)
      => (validated.result.valid
            <=> /\ validated.data.nameLen >= 1
                /\ validated.data.nameLen <= NAME_MAX
                /\ PhoneInRange(validated.data)
                /\ MessageInRange(validated.data))

(* C21, amended: accepted exactly when the name has 2 to 100 characters,
   the email 254 at most, the phone, if present, is well-formed and of 20
   characters at most, and the message has 10 to 5000 characters *)
C21_AcceptedIffFieldsInRange ==
    (validated.called /\ WellFormedEmail(validated.data)
       /\ ~validated.data.spam)
      => (validated.result.valid
            <=> /\ validated.data.nameLen >= NAME_MIN
                /\ validated.data.nameLen <= NAME_MAX
                /\ validated.data.emailLen <= EMAIL_MAX
                /\ PhoneInRange(validated.data)
                /\ MessageInRange(validated.data))

C21_Witness ==
    /\ validated.called
    /\ validated.result.valid
    /\ validated.data.msgLen = MESSAGE_MIN
    /\ validated.data.nameLen = NAME_MIN
    /\ validated.data.phoneLen = PHONE_MAX

(* the fields of the form data that break their rule *)
ViolatingFields(d) ==
    (IF d.nameLen < NAME_MIN \/ d.nameLen > NAME_MAX THEN {"name"} ELSE {})
    \cup (IF d.emailLen = 0 \/ ~d.emailOk \/ d.emailLen > EMAIL_MAX
            THEN {"email"} ELSE {})
    \cup (IF ~PhoneInRange(d) THEN {"phone"} ELSE {})
    \cup (IF ~MessageInRange(d) THEN {"message"} ELSE {})

FieldsOf(result) == {result.fields[i] : i \in DOMAIN result.fields}

(* C25: when validation fails on form data that breaks a field rule, the
   fields it returns include every field that breaks its rule *)
C25_AllViolatingFieldsReturned ==
    (validated.called /\ ~validated.result.valid
       /\ ViolatingFields(validated.data) # {})
      => ViolatingFields(validated.data) \subseteq FieldsOf(validated.result)

(* the submissions a replay has delivered so far *)
DeliveredBy(r) ==
    {replays[r].results[k].submission.id :
       k \in {j \in DOMAIN replays[r].results : replays[r].results[j].success}}

(* C22: while a replay awaits the delivery of a queued submission, the
   submissions it has delivered before are no longer in the persisted
   queue *)
C22_DeliveredRemovedBeforeNextAttempt ==
    \A r \in Slots :
       replays[r].pc = "awaiting"
         => DeliveredBy(r) \cap Ids(stored.queue) = {}

(* a replay goes on to the delivery attempt of its next submission *)
NextAttemptStarts(r) ==
    /\ Active(r)
    /\ replays'[r].pc = "awaiting"
    /\ replays'[r].idx = replays[r].idx + 1

(* C23: a replay starts the delivery attempt of its next submission only
   when the delay timer set after the attempt before fires, whether that
   attempt succeeded or failed *)
C23_DelayBetweenAttempts ==
    [][ \A r \in Slots :
          NextAttemptStarts(r) => replays[r].pc = "delay" ]_vars

(* C24: once this generation is activated, a same-origin request that is no
   navigation is answered from a cache only with a response that this
   generation stored *)
C24_CacheFirstOnlyThisGeneration ==
    (response.route = "resource" /\ response.result.answered = "cache")
      => response.request.url \in fresh

(* the stored item is the in-memory queue, no item counting as the empty
   queue *)
StoredIsQueue ==
    \/ stored.state = "json" /\ stored.queue = pending
    \/ stored.state = "absent" /\ pending = <<>>

(* the same, an item that does not parse counting as the empty queue too *)
StoredIsQueueOrUnparsable ==
    \/ StoredIsQueue
    \/ stored.state = "corrupt" /\ pending = <<>>

(* the step enqueues a submission or ends a replay *)
QueueMutated ==
    \/ message' = Msg("warning", "queued")
    \/ lastReplay'.done

(* the step's call of savePendingSubmissions threw *)
WriteFailed ==
    \/ message' = Msg("warning", "queued") /\ ~lastSubmit'.saved
    \/ lastReplay'.done /\ ~lastReplay'.saved

(* C26: in an initialised page, the stored item is the in-memory queue
   after init, after every queue mutation whose write does not fail, and
   from then on until the next mutation; so it is whenever the page is idle
   and no write has failed since the last mutation *)
C26_StoredEqualsQueue ==
    [][ (initialized' /\ ~WriteFailed
           /\ (~initialized \/ QueueMutated \/ StoredIsQueue))
          => StoredIsQueue' ]_vars

(* C26, amended: the same, with an unparsable stored item counting as the
   empty queue like an absent one *)
C26_StoredEqualsQueueOrUnparsable ==
    [][ (initialized' /\ ~WriteFailed
           /\ (~initialized \/ QueueMutated \/ StoredIsQueueOrUnparsable))
          => StoredIsQueueOrUnparsable' ]_vars

C26_Witness ==
    /\ initialized
    /\ hsInFlight = {}
    /\ \A r \in Slots : ~Active(r)
    /\ lastReplay.done
    /\ lastReplay.saved
    /\ pending # <<>>
    /\ stored = Json(pending)

(* a sendPendingSubmissions call issues its first delivery *)
ReplayStarts == \E r \in Slots : ~Active(r) /\ Active(r)'

(* the 'online' event fires *)
OnlineFires == ~online /\ online'

(* C27: init makes no delivery attempt, also when the client is online; a
   replay of the queued submissions starts only in the step of an 'online'
   event *)
C27_ReplayOnlyOnOnlineEvent ==
    /\ [][ (~initialized /\ initialized')
             => (replays' = replays /\ hsInFlight' = hsInFlight) ]_vars
    /\ [][ ReplayStarts => OnlineFires ]_vars

C27_Witness ==
    /\ initialized
    /\ online
    /\ pending # <<>>
    /\ delivered = {}
    /\ \A r \in Slots : ~Active(r)
    /\ overlaps = 0
    /\ nextId = 1

(* a sendPendingSubmissions call starts, goes on or ends *)
ReplayStep ==
    \E r \in Slots : \/ replays'[r].pc # replays[r].pc
                     \/ replays'[r].idx # replays[r].idx

(* C28: a handleSubmit call that the rate limiter lets pass records one
   attempt at the current time, whatever validation says afterwards, and no
   step of a replay calls the rate limiter or changes its attempts *)
C28_AttemptRecordedBeforeValidation ==
    /\ [][ (lastCheck'.called /\ lastCheck'.allowed)
             => rlAttempts'
                  = Append(KeepRecent(rlAttempts, now, WINDOW_MS), now) ]_vars
    /\ [][ (lastValidation'.called /\ ~lastValidation'.valid)
             => Len(rlAttempts') = Len(KeepRecent(rlAttempts, now, WINDOW_MS)) + 1
       ]_vars
    /\ [][ ReplayStep
             => (rlAttempts' = rlAttempts /\ ~lastCheck'.called) ]_vars

C28_Witness ==
    /\ lastCheck.called
    /\ ~lastCheck.allowed
    /\ nextId = 1
    /\ delivered # {}

CachingRoutes == {"navigation", "resource", "font"}

(* the handler of the request asked the network *)
NetworkAsked ==
    /\ response'.route \in CachingRoutes
    /\ \/ response'.route = "navigation"
       \/ ~InSomeCache(response'.request.url)

(* C29: an activated worker changes a cache only by storing the ok response
   of the network to the request it handles, and a response of the network
   that is not ok is returned as it is and leaves the caches as they are *)
C29_OnlyOkResponsesCached ==
    /\ [][ (swState = "activated" /\ caches' # caches)
             => /\ response'.route \in CachingRoutes
                /\ response'.net = "ok"
                /\ response'.result
                     = NetworkResponse(response'.request, "ok")
                /\ response'.result.status = 200
                /\ caches' = Put(caches,
                                 IF response'.route = "font"
                                   THEN CACHE_NAME ELSE RUNTIME_CACHE,
                                 response'.request) ]_vars
    /\ [][ (NetworkAsked /\ response'.net = "notok")
             => /\ response'.result
                     = NetworkResponse(response'.request, "notok")
                /\ caches' = caches ]_vars

C29_Witness ==
    /\ response.route = "resource"
    /\ response.net = "notok"
    /\ response.result.answered = "network"
    /\ response.result.status = 404
    /\ ~InSomeCache(response.request.url)
    /\ caches[RUNTIME_CACHE].exists

NoLoadInProgress == \A s \in LoadSlots : loads[s].pc = "idle"

(* C30: once init has been called and no load is in progress, the
   translations are the table of the current language *)
C30_TranslationsOfCurrentLang ==
    (i18nInitCalled /\ NoLoadInProgress)
      => translations = TranslationsOf(currentLang)

====
